---- MODULE Spec2Model ----
(***************************************************************************)
(* AsyncButton: polling debouncer and press classifier (AsyncButton.cpp).  *)
(* The registry Current->buttons is a sequence of State records; millis()  *)
(* is an unsigned counter of ClockMod values; digitalRead(pin) is the      *)
(* level the environment holds on the pin during the current millisecond.  *)
(***************************************************************************)
EXTENDS Integers, Sequences, FiniteSets

VARIABLES
    build,      \* compile-time configuration: the BUTTON_*_TIME macros and the width of unsigned long
    env,        \* the environment: how long it runs, which pins nobody touches, how often it calls
                \* reset(), whether its contacts bounce
    buttons,    \* Current->buttons, a sequence of State records
    callback,   \* buttonCallback != nullptr
    now,        \* millis()
    raw,        \* raw[pin]: what digitalRead(pin) returns during this millisecond
    ret,        \* the call of a predicate that was the last step, with what it returned; NoCall otherwise
    fired,      \* indices of the records for which the last update() invoked buttonCallback
    cbCount,    \* invocations of buttonCallback so far
    elapsed,    \* milliseconds since Init, not wrapped (the environment's real time)
    polled,     \* update() has run during the current millisecond
    dense,      \* update() has run during every earlier millisecond
    stable,     \* stable[pin]: the milliseconds raw[pin] has kept its level, counted up to the debounce time + 1
    pressAt,    \* pressAt[i]: the real time at which record i last resolved a press of its own input,
                \* 0 when it has resolved none since it was built or reset
    heldFor,    \* heldFor[i]: the real milliseconds between the last resolved press and the resolved
                \* release of record i's own input, 0 when there was none
    resets,     \* explicit calls of reset() so far
    held,       \* held[pin]: the milliseconds raw[pin] has been Pressed without a break, or was the last
                \* time when it is Released now; counted up to HeldCap
    firedAt,    \* firedAt[i]: the real time at which update() last invoked buttonCallback for record i
                \* since its state was last Released, 0 when it has not
    base        \* base[pin]: the resolved state of the pin's record when raw[pin] last left a level
                \* it had kept for the debounce time or longer (when the present toggling started)

vars == <<build, env, buttons, callback, now, raw, ret, fired, cbCount, elapsed, polled, dense, stable, pressAt, heldFor, resets, base, held, firedAt>>

----------------------------------------------------------------------------
(* Program constants *)

PRESSED == 0
RELEASED == 1
NoPin == 255
DefaultDebounce == 50
DefaultDoubleClick == 400
DefaultLongPress == 1000

(* The macros are #ifndef-guarded: a build may override them. *)
BUTTON_DEBOUNCE_TIME == build.debounce
BUTTON_DOUBLECLICK_TIME == build.doubleclick
BUTTON_LONGPRESS_TIME == build.longpress
(* unsigned long arithmetic is modulo 2^w; the model's w is scaled down. *)
ClockMod == build.mod

(* a - b in unsigned long *)
Sub(a, b) == (a - b + ClockMod) % ClockMod

----------------------------------------------------------------------------
(* Bounds of the model *)

(* the build of the free-running specification *)
FreeDebounce == 2
FreeDoubleClick == 3
FreeLongPress == 4
FreeClockMod == 8
FreeMaxTime == 8
FreeMaxResets == 1
FreeLead == 3
(* the build of the specifications that poll every millisecond *)
DenseDebounce == 1
DenseDoubleClick == 7
DenseLongPress == 8
DenseClockMod == 16
DenseMaxTime == 19
DenseLead == 6
(* the worked example runs the default build on a 16-bit clock *)
ExampleClockMod == 65536
MaxButtons == 3

Levels == {PRESSED, RELEASED}

----------------------------------------------------------------------------
(* The registry *)

State(pin, mappedPin, mappedState) ==
    [pin |-> pin, state |-> RELEASED, doublePress |-> FALSE, duration |-> 0,
     last_time |-> 0, lastReading |-> RELEASED, lastChangeTime |-> 0,
     lastLongPressCallback |-> 0, mappedPin |-> mappedPin, mappedState |-> mappedState]

(* getState: the index of the first record with this pin, 0 for nullptr *)
getStateAnyPin(btns, pin) ==
    IF \E i \in 1..Len(btns) : btns[i].pin = pin
    THEN CHOOSE i \in 1..Len(btns) : btns[i].pin = pin /\ \A j \in 1..(i - 1) : btns[j].pin # pin
    ELSE 0

getState(btns, pin) ==
    IF pin = NoPin THEN 0
    ELSE IF \E i \in 1..Len(btns) : btns[i].pin = pin
         THEN CHOOSE i \in 1..Len(btns) : btns[i].pin = pin /\ \A j \in 1..(i - 1) : btns[j].pin # pin
         ELSE 0

ClearedButDuration(b, t) ==
    [pin |-> b.pin, state |-> RELEASED, doublePress |-> FALSE, duration |-> b.duration,
     last_time |-> 0, lastReading |-> RELEASED, lastChangeTime |-> t,
     lastLongPressCallback |-> 0, mappedPin |-> b.mappedPin, mappedState |-> b.mappedState]

(* the aggregate assignment of reset(): every field but pin and the mapping *)
Cleared(b, t) ==
    [pin |-> b.pin, state |-> RELEASED, doublePress |-> FALSE, duration |-> 0,
     last_time |-> 0, lastReading |-> RELEASED, lastChangeTime |-> t,
     lastLongPressCallback |-> 0, mappedPin |-> b.mappedPin, mappedState |-> b.mappedState]

resetNamedOnly(btns, pin, t) ==
    LET button == getState(btns, pin) IN
    IF button = 0 THEN btns
    ELSE [i \in 1..Len(btns) |-> IF i = button THEN Cleared(btns[i], t) ELSE btns[i]]

reset(btns, pin, t) ==
    LET button == getState(btns, pin) IN
    IF button = 0 THEN btns
    ELSE [i \in 1..Len(btns) |->
            IF i = button THEN Cleared(btns[i], t)
            ELSE IF btns[i].mappedPin = pin THEN Cleared(btns[i], t)
            ELSE btns[i]]

setup(btns) ==
    [i \in 1..Len(btns) |->
        IF btns[i].pin # NoPin /\ btns[i].mappedPin # NoPin
        THEN [btns[i] EXCEPT !.mappedState = getState(btns, btns[i].mappedPin)]
        ELSE btns[i]]

----------------------------------------------------------------------------
(* update(), first loop: one record, its reading, the time *)

DebouncedInclusive(b, reading, t) ==
    LET changeTime == IF reading # b.lastReading THEN t ELSE b.lastChangeTime
        b1 == [b EXCEPT !.lastChangeTime = changeTime]
    IN  IF Sub(t, changeTime) >= BUTTON_DEBOUNCE_TIME /\ reading # b1.state
        THEN IF reading = PRESSED
             THEN [b1 EXCEPT !.doublePress = (Sub(t, b.last_time) < BUTTON_DOUBLECLICK_TIME),
                             !.duration = 0,
                             !.last_time = t,
                             !.state = reading]
             ELSE [b1 EXCEPT !.duration = Sub(t, b.last_time), !.state = reading]
        ELSE b1

DebouncedUnanchored(b, reading, t) ==
    IF Sub(t, b.lastChangeTime) > BUTTON_DEBOUNCE_TIME /\ reading # b.state
    THEN IF reading = PRESSED
         THEN [b EXCEPT !.doublePress = (Sub(t, b.last_time) < BUTTON_DOUBLECLICK_TIME),
                        !.duration = 0,
                        !.last_time = t,
                        !.state = reading]
         ELSE [b EXCEPT !.duration = Sub(t, b.last_time), !.state = reading]
    ELSE b

Debounced(b, reading, t) ==
    LET changeTime == IF reading # b.lastReading THEN t ELSE b.lastChangeTime
        b1 == [b EXCEPT !.lastChangeTime = changeTime]
    IN  IF Sub(t, changeTime) > BUTTON_DEBOUNCE_TIME /\ reading # b1.state
        THEN IF reading = PRESSED
             THEN [b1 EXCEPT !.doublePress = (Sub(t, b.last_time) < BUTTON_DOUBLECLICK_TIME),
                             !.duration = 0,
                             !.last_time = t,
                             !.state = reading]
             ELSE IF reading = RELEASED /\ b1.state = PRESSED
                  THEN [b1 EXCEPT !.duration = Sub(t, b.last_time), !.state = reading]
                  ELSE [b1 EXCEPT !.state = reading]
        ELSE b1

LongPressDueUnthrottled(b, reading, cb, t) ==
    /\ reading = PRESSED
    /\ b.state = PRESSED
    /\ cb
    /\ Sub(t, b.last_time) >= BUTTON_LONGPRESS_TIME

(* whether the first loop invokes buttonCallback for the record *)
LongPressDue(b, reading, cb, t) ==
    /\ reading = PRESSED
    /\ b.state = PRESSED
    /\ cb
    /\ Sub(t, b.last_time) >= BUTTON_LONGPRESS_TIME
    /\ Sub(t, b.lastLongPressCallback) >= BUTTON_LONGPRESS_TIME

Polled(b, reading, cb, t) ==
    LET b1 == [Debounced(b, reading, t) EXCEPT !.lastReading = reading]
        b2 == IF LongPressDue(b1, reading, cb, t)
              THEN [b1 EXCEPT !.lastLongPressCallback = t] ELSE b1
    IN  IF reading = RELEASED THEN [b2 EXCEPT !.lastLongPressCallback = 0] ELSE b2

FirstLoop(btns, levels, cb, t) ==
    [i \in 1..Len(btns) |->
        IF btns[i].pin = NoPin THEN btns[i]
        ELSE Polled(btns[i], levels[btns[i].pin], cb, t)]

Fires(btns, levels, cb, t) ==
    {i \in 1..Len(btns) :
        /\ btns[i].pin # NoPin
        /\ LongPressDue([Debounced(btns[i], levels[btns[i].pin], t) EXCEPT !.lastReading = levels[btns[i].pin]],
                        levels[btns[i].pin], cb, t)}

(* update(), second loop: records i..size copy onto their mapped records, in order *)
RECURSIVE SecondLoopKeepDouble(_, _)
SecondLoopKeepDouble(btns, i) ==
    IF i > Len(btns) THEN btns
    ELSE LET button == btns[i]
             m == button.mappedState
         IN  IF m # 0 /\ button.state = PRESSED
             THEN SecondLoopKeepDouble([btns EXCEPT ![m].state = button.state,
                                                    ![m].duration = button.duration,
                                                    ![m].last_time = button.last_time], i + 1)
             ELSE SecondLoopKeepDouble(btns, i + 1)

RECURSIVE SecondLoopKeepDuration(_, _)
SecondLoopKeepDuration(btns, i) ==
    IF i > Len(btns) THEN btns
    ELSE LET button == btns[i]
             m == button.mappedState
         IN  IF m # 0 /\ button.state = PRESSED
             THEN SecondLoopKeepDuration([btns EXCEPT ![m].state = button.state,
                                                      ![m].doublePress = button.doublePress,
                                                      ![m].last_time = button.last_time], i + 1)
             ELSE SecondLoopKeepDuration(btns, i + 1)

(* the second loop of update(), from record i on *)
RECURSIVE SecondLoop(_, _)
SecondLoop(btns, i) ==
    IF i > Len(btns) THEN btns
    ELSE LET button == btns[i]
             m == button.mappedState
         IN  IF m # 0 /\ button.state = PRESSED
             THEN SecondLoop([btns EXCEPT ![m].state = button.state,
                                          ![m].duration = button.duration,
                                          ![m].doublePress = button.doublePress,
                                          ![m].last_time = button.last_time], i + 1)
             ELSE SecondLoop(btns, i + 1)

update(btns, levels, cb, t) == SecondLoop(FirstLoop(btns, levels, cb, t), 1)

----------------------------------------------------------------------------
(* checkPress and the six predicates *)

checkPressInclusive(btns, button, minDuration, maxDuration, requireDouble, t) ==
    /\ button # 0
    /\ LET b == btns[button]
           durationOk == b.duration > minDuration /\ (maxDuration = 0 \/ b.duration <= maxDuration)
           doubleOk == ~requireDouble \/ b.doublePress
           released == b.state = RELEASED /\ b.duration > 0
                       /\ Sub(t, b.last_time) >= BUTTON_DOUBLECLICK_TIME
       IN  released /\ durationOk /\ doubleOk

(* the value checkPress returns for the record at index button (0: nullptr) *)
checkPress(btns, button, minDuration, maxDuration, requireDouble, t) ==
    /\ button # 0
    /\ LET b == btns[button]
           durationOk == b.duration > minDuration /\ (maxDuration = 0 \/ b.duration <= maxDuration)
           doubleOk == ~requireDouble \/ b.doublePress
           released == b.state = RELEASED /\ b.duration > 0
                       /\ Sub(t, b.last_time) > BUTTON_DOUBLECLICK_TIME
       IN  released /\ durationOk /\ doubleOk

Predicates == {"isPressed", "isPressedDouble", "isShortPressed", "isShortPressedDouble",
               "isLongPressed", "isLongPressedDouble"}

MinDurationNone(q) == 0
MinDuration(q) == IF q \in {"isLongPressed", "isLongPressedDouble"} THEN BUTTON_LONGPRESS_TIME ELSE 0
MaxDuration(q) == IF q \in {"isShortPressed", "isShortPressedDouble"} THEN BUTTON_LONGPRESS_TIME ELSE 0
RequireDouble(q) == q \in {"isPressedDouble", "isShortPressedDouble", "isLongPressedDouble"}

(* the value predicate q returns for pin *)
Holds(btns, q, pin, t) ==
    checkPress(btns, getState(btns, pin), MinDuration(q), MaxDuration(q), RequireDouble(q), t)

(* the registry after predicate q was called for pin *)
AfterQuery(btns, q, pin, doReset, t) ==
    IF Holds(btns, q, pin, t) /\ doReset THEN reset(btns, pin, t) ELSE btns

----------------------------------------------------------------------------
(* Registries and initial states *)

Reg1 == <<State(1, NoPin, 0)>>
RegAB == <<State(1, 2, 0), State(2, NoPin, 0)>>
RegBA == <<State(2, NoPin, 0), State(1, 2, 0)>>
Registries == {Reg1, RegAB, RegBA}

Pins == {buttons[i].pin : i \in 1..Len(buttons)} \ {NoPin}
Indices == 1..Len(buttons)

FreeBuild ==
    [debounce |-> FreeDebounce, doubleclick |-> FreeDoubleClick,
     longpress |-> FreeLongPress, mod |-> FreeClockMod]
DenseBuild ==
    [debounce |-> DenseDebounce, doubleclick |-> DenseDoubleClick,
     longpress |-> DenseLongPress, mod |-> DenseClockMod]
DefaultBuild ==
    [debounce |-> DefaultDebounce, doubleclick |-> DefaultDoubleClick,
     longpress |-> DefaultLongPress, mod |-> ExampleClockMod]

NoCall == [op |-> "none"]

(* The program after construction (the static initialisers), with millis() at *)
(* some value of clocks: update() leaves records of released buttons as they  *)
(* were built, so the program is in this state whenever it has idled.         *)
Idle(b, e, regs, clocks) ==
    /\ build = b
    /\ env = e
    /\ buttons \in regs
    /\ callback = FALSE
    /\ now \in clocks
    /\ raw = [p \in Pins |-> RELEASED]
    /\ ret = NoCall
    /\ fired = {}
    /\ cbCount = 0
    /\ elapsed = 0
    /\ polled = TRUE
    /\ dense = TRUE
    /\ stable = [p \in Pins |-> b.debounce + 1]
    /\ pressAt = [i \in 1..MaxButtons |-> 0]
    /\ heldFor = [i \in 1..MaxButtons |-> 0]
    /\ resets = 0
    /\ base = [p \in Pins |-> RELEASED]
    /\ held = [p \in Pins |-> 0]
    /\ firedAt = [i \in 1..MaxButtons |-> 0]

(* The idle program after setup(callback) *)
Ready(b, e, regs, clocks, cbs) ==
    /\ build = b
    /\ env = e
    /\ \E r \in regs : buttons = setup(r)
    /\ callback \in cbs
    /\ now \in clocks
    /\ raw = [p \in Pins |-> RELEASED]
    /\ ret = NoCall
    /\ fired = {}
    /\ cbCount = 0
    /\ elapsed = 0
    /\ polled = TRUE
    /\ dense = TRUE
    /\ stable = [p \in Pins |-> b.debounce + 1]
    /\ pressAt = [i \in 1..MaxButtons |-> 0]
    /\ heldFor = [i \in 1..MaxButtons |-> 0]
    /\ resets = 0
    /\ base = [p \in Pins |-> RELEASED]
    /\ held = [p \in Pins |-> 0]
    /\ firedAt = [i \in 1..MaxButtons |-> 0]

----------------------------------------------------------------------------
(* Actions *)

Aged(levels) ==
    [p \in Pins |-> IF levels[p] # raw[p] THEN 0
                    ELSE IF stable[p] > BUTTON_DEBOUNCE_TIME THEN stable[p] ELSE stable[p] + 1]

Based(levels) ==
    [p \in Pins |-> IF levels[p] # raw[p] /\ stable[p] + 1 >= BUTTON_DEBOUNCE_TIME
                    THEN buttons[getState(buttons, p)].state ELSE base[p]]

(* the real time at which each record last resolved a press of its own input, *)
(* after update() ran at real time at *)
Pressings(levels, t, at) ==
    [i \in 1..MaxButtons |->
        IF /\ i \in Indices
           /\ buttons[i].state = RELEASED
           /\ FirstLoop(buttons, levels, callback, t)[i].state = PRESSED
        THEN at ELSE pressAt[i]]

(* the real length of each record's last completed hold of its own input *)
Holdings(levels, t, at) ==
    [i \in 1..MaxButtons |->
        IF /\ i \in Indices
           /\ pressAt[i] # 0
           /\ buttons[i].state = PRESSED
           /\ FirstLoop(buttons, levels, callback, t)[i].state = RELEASED
        THEN at - pressAt[i] ELSE heldFor[i]]

(* the length of each pin's run at Pressed once the pins take levels *)
HeldCap == IF BUTTON_LONGPRESS_TIME > BUTTON_DEBOUNCE_TIME THEN BUTTON_LONGPRESS_TIME ELSE BUTTON_DEBOUNCE_TIME + 1
Runs(levels) ==
    [p \in Pins |-> IF levels[p] = RELEASED THEN held[p]
                    ELSE IF raw[p] = RELEASED THEN 0
                    ELSE IF held[p] < HeldCap THEN held[p] + 1 ELSE held[p]]

(* the real time of each record's last callback, once the registry is btns, *)
(* after buttonCallback was invoked for the records in fires at real time at *)
Throttled(btns, fires, at) ==
    [i \in 1..MaxButtons |->
        IF i \in fires THEN at
        ELSE IF i \in 1..Len(btns) /\ btns[i].state = PRESSED THEN firedAt[i] ELSE 0]

(* reset(pin) makes its records forget their presses *)
Forgotten(pin) ==
    [i \in 1..MaxButtons |->
        IF i \in Indices /\ getState(buttons, pin) # 0
           /\ (i = getState(buttons, pin) \/ buttons[i].mappedPin = pin)
        THEN 0 ELSE pressAt[i]]

(* the levels the pins may take in the next millisecond: a quiet pin stays     *)
(* Released; in a clean environment a pin leaves a level only after it has    *)
(* kept it for longer than the debounce time                                  *)
InputsOf(e) ==
    {levels \in [Pins -> Levels] :
        /\ \A p \in Pins \cap e.quiet : levels[p] = RELEASED
        /\ e.clean => \A p \in Pins : levels[p] # raw[p] => stable[p] > BUTTON_DEBOUNCE_TIME}

(* a millisecond passes; the pins take their levels for the new millisecond *)
Tick(levels) ==
    /\ elapsed < env.maxTime
    /\ raw' = levels
    /\ stable' = Aged(levels)
    /\ now' = (now + 1) % ClockMod
    /\ elapsed' = elapsed + 1
    /\ polled' = FALSE
    /\ dense' = (dense /\ polled)
    /\ fired' = {}
    /\ ret' = NoCall
    /\ UNCHANGED <<build, env, buttons, callback, cbCount, pressAt, heldFor, resets, firedAt>>
    /\ base' = Based(levels)
    /\ held' = Runs(levels)

Update ==
    /\ buttons' = update(buttons, raw, callback, now)
    /\ fired' = Fires(buttons, raw, callback, now)
    /\ cbCount' = cbCount + Cardinality(Fires(buttons, raw, callback, now))
    /\ pressAt' = Pressings(raw, now, elapsed)
    /\ heldFor' = Holdings(raw, now, elapsed)
    /\ polled' = TRUE
    /\ ret' = NoCall
    /\ firedAt' = Throttled(update(buttons, raw, callback, now), Fires(buttons, raw, callback, now), elapsed)
    /\ UNCHANGED <<build, env, callback, now, raw, elapsed, dense, stable, resets, base, held>>

(* a millisecond passes and update() runs in it *)
TickPoll(levels) ==
    /\ elapsed < env.maxTime
    /\ polled
    /\ raw' = levels
    /\ stable' = Aged(levels)
    /\ now' = (now + 1) % ClockMod
    /\ elapsed' = elapsed + 1
    /\ buttons' = update(buttons, levels, callback, (now + 1) % ClockMod)
    /\ fired' = Fires(buttons, levels, callback, (now + 1) % ClockMod)
    /\ cbCount' = cbCount + Cardinality(Fires(buttons, levels, callback, (now + 1) % ClockMod))
    /\ pressAt' = Pressings(levels, (now + 1) % ClockMod, elapsed + 1)
    /\ heldFor' = Holdings(levels, (now + 1) % ClockMod, elapsed + 1)
    /\ ret' = NoCall
    /\ UNCHANGED <<build, env, callback, polled, dense, resets>>
    /\ base' = Based(levels)
    /\ held' = Runs(levels)
    /\ firedAt' = Throttled(update(buttons, levels, callback, (now + 1) % ClockMod),
                            Fires(buttons, levels, callback, (now + 1) % ClockMod), elapsed + 1)

(* one of the six predicates is called; ret.value is what it returns *)
Query(q, pin, doReset) ==
    /\ ret' = [op |-> q, pin |-> pin, reset |-> doReset, value |-> Holds(buttons, q, pin, now)]
    /\ buttons' = AfterQuery(buttons, q, pin, doReset, now)
    /\ pressAt' = IF Holds(buttons, q, pin, now) /\ doReset THEN Forgotten(pin) ELSE pressAt
    /\ fired' = {}
    /\ firedAt' = Throttled(buttons', {}, 0)
    /\ UNCHANGED <<build, env, callback, now, raw, cbCount, elapsed, polled, dense, stable, heldFor, resets, base, held>>

(* checkPress is called for the record at index button (0: nullptr) *)
Check(button, minDuration, maxDuration, requireDouble, doReset) ==
    LET value == checkPress(buttons, button, minDuration, maxDuration, requireDouble, now) IN
    /\ ret' = [op |-> "checkPress", button |-> button, minDuration |-> minDuration,
               maxDuration |-> maxDuration, requireDouble |-> requireDouble, reset |-> doReset,
               value |-> value]
    /\ buttons' = IF value /\ doReset THEN reset(buttons, buttons[button].pin, now) ELSE buttons
    /\ pressAt' = IF value /\ doReset THEN Forgotten(buttons[button].pin) ELSE pressAt
    /\ fired' = {}
    /\ firedAt' = Throttled(buttons', {}, 0)
    /\ UNCHANGED <<build, env, callback, now, raw, cbCount, elapsed, polled, dense, stable, heldFor, resets, base, held>>

Reset(pin) ==
    /\ resets < env.maxResets
    /\ resets' = resets + 1
    /\ buttons' = reset(buttons, pin, now)
    /\ pressAt' = Forgotten(pin)
    /\ ret' = [op |-> "reset", pin |-> pin]
    /\ fired' = {}
    /\ firedAt' = Throttled(reset(buttons, pin, now), {}, 0)
    /\ UNCHANGED <<build, env, callback, now, raw, cbCount, elapsed, polled, dense, stable, heldFor, base, held>>

(* setup() is called while the program starts: before the first millisecond is over *)
Setup(cb) ==
    /\ elapsed = 0
    /\ buttons' = setup(buttons)
    /\ callback' = cb
    /\ ret' = NoCall
    /\ fired' = {}
    /\ UNCHANGED <<build, env, now, raw, cbCount, elapsed, polled, dense, stable, pressAt, heldFor, resets, base, held, firedAt>>

----------------------------------------------------------------------------
(* Spec: the program running free. Any input, update() whenever the loop gets *)
(* to it, reset() and consuming queries at any time. A query that returns     *)
(* false, or is called with reset = false, changes nothing in the program: it *)
(* is the operator Holds, and no step.                                        *)

Init ==
    Idle(FreeBuild, [maxTime |-> FreeMaxTime, quiet |-> {2}, maxResets |-> FreeMaxResets, clean |-> FALSE],
         Registries, {0, FreeClockMod - FreeLead})

Pass == \E levels \in InputsOf(env) : Tick(levels)
Consume == \E q \in Predicates, pin \in Pins : Holds(buttons, q, pin, now) /\ Query(q, pin, TRUE)
AnyReset == \E pin \in Pins \cup {NoPin} : Reset(pin)
AnySetup == \E cb \in BOOLEAN : Setup(cb)

Next == Pass \/ Update \/ Consume \/ AnyReset \/ AnySetup

Spec == Init /\ [][Next]_vars

----------------------------------------------------------------------------
(* SpecDense: update() runs in every millisecond, the callback is registered, *)
(* the mirror target's own input is left alone; long enough for the clock to  *)
(* come round.                                                                *)

InitDense ==
    Ready(DenseBuild, [maxTime |-> DenseMaxTime, quiet |-> {2}, maxResets |-> 0, clean |-> FALSE], Registries,
          {0, DenseClockMod - DenseLead}, {TRUE})

Poll == \E levels \in InputsOf(env) : TickPoll(levels)

NextDense == Poll \/ Consume

SpecDense == InitDense /\ [][NextDense]_vars

----------------------------------------------------------------------------
(* SpecHold: the default build; one button is held for three long-press       *)
(* windows and let go, update() runs in every millisecond, the callback is    *)
(* registered. The clock starts far from its wrap, or wraps during the hold.  *)

HoldTime == 3 * DefaultLongPress
HoldEnd == HoldTime + 2 * DefaultDebounce
HoldStarts ==
    {0,
     ExampleClockMod - 2 * DefaultLongPress,
     ExampleClockMod - (DefaultLongPress + DefaultDebounce + 2),
     ExampleClockMod - (DefaultDebounce + 2) - (DefaultLongPress \div 2)}

HoldInput(t) == [p \in Pins |-> IF t \in 1..HoldTime THEN PRESSED ELSE RELEASED]

InitHold ==
    Ready(DefaultBuild, [maxTime |-> HoldEnd, quiet |-> {}, maxResets |-> 0, clean |-> FALSE], {Reg1},
          HoldStarts, {TRUE})

HoldPoll == TickPoll(HoldInput(elapsed + 1))

NextHold == HoldPoll

SpecHold == InitHold /\ [][NextHold]_vars

----------------------------------------------------------------------------
(* SpecExample: the worked example. The default build, one button, millis()   *)
(* = 0 = t with the pin already Low; update() runs at t = 0 and in every      *)
(* millisecond after; the pin goes High at t = ExampleRelease.                *)

ExampleRelease == 120
ExampleEnd == 600

ExampleInput(t) == [p \in Pins |-> IF t < ExampleRelease THEN PRESSED ELSE RELEASED]

InitExample ==
    /\ build = DefaultBuild
    /\ env = [maxTime |-> ExampleEnd, quiet |-> {}, maxResets |-> 0, clean |-> FALSE]
    /\ buttons = setup(Reg1)
    /\ callback = FALSE
    /\ now = 0
    /\ raw = ExampleInput(0)
    /\ ret = NoCall
    /\ fired = {}
    /\ cbCount = 0
    /\ elapsed = 0
    /\ polled = FALSE
    /\ dense = TRUE
    /\ stable = [p \in Pins |-> 0]
    /\ pressAt = [i \in 1..MaxButtons |-> 0]
    /\ heldFor = [i \in 1..MaxButtons |-> 0]
    /\ resets = 0
    /\ base = [p \in Pins |-> RELEASED]
    /\ held = [p \in Pins |-> 0]
    /\ firedAt = [i \in 1..MaxButtons |-> 0]

FirstPoll == ~polled /\ Update
ExamplePoll == TickPoll(ExampleInput(elapsed + 1))

NextExample == FirstPoll \/ ExamplePoll

SpecExample == InitExample /\ [][NextExample]_vars

----------------------------------------------------------------------------
(* SpecCheckPress: checkPress as a function. The record, the clock and the    *)
(* arguments are drawn from all their values on the free build's clock.       *)

Durations == {0, 1, FreeLongPress}

InitCheckPress ==
    /\ build = FreeBuild
    /\ env = [maxTime |-> 0, quiet |-> {}, maxResets |-> 0, clean |-> FALSE]
    /\ \E st \in Levels, dp \in BOOLEAN, d \in 0..(FreeClockMod - 1), lt \in 0..(FreeClockMod - 1) :
        buttons = <<[State(1, NoPin, 0) EXCEPT !.state = st, !.doublePress = dp,
                                               !.duration = d, !.last_time = lt]>>
    /\ callback = FALSE
    /\ now \in 0..(FreeClockMod - 1)
    /\ raw = [p \in Pins |-> RELEASED]
    /\ ret = NoCall
    /\ fired = {}
    /\ cbCount = 0
    /\ elapsed = 0
    /\ polled = TRUE
    /\ dense = TRUE
    /\ stable = [p \in Pins |-> FreeDebounce + 1]
    /\ pressAt = [i \in 1..MaxButtons |-> 0]
    /\ heldFor = [i \in 1..MaxButtons |-> 0]
    /\ resets = 0
    /\ base = [p \in Pins |-> RELEASED]
    /\ held = [p \in Pins |-> 0]
    /\ firedAt = [i \in 1..MaxButtons |-> 0]

AnyCheck ==
    \E button \in {0} \cup Indices, minDuration \in Durations, maxDuration \in Durations,
       requireDouble \in BOOLEAN, doReset \in BOOLEAN :
        Check(button, minDuration, maxDuration, requireDouble, doReset)

NextCheckPress == AnyCheck

SpecCheckPress == InitCheckPress /\ [][NextCheckPress]_vars

----------------------------------------------------------------------------
(* SpecWide: registries of three records. A mirror chain A -> B -> C in every *)
(* order of the array, and a registry with an unused slot and a record that   *)
(* mirrors onto a pin nobody registered. The inputs of pins 1 and 2 are free, *)
(* update() runs in every millisecond from the start of the program, reset()  *)
(* and consuming queries come at any time.                                    *)

WideDebounce == 1
WideDoubleClick == 1
WideLongPress == 2
WideClockMod == 8
WideMaxTime == 5
WideMaxResets == 1
WideLead == 2
UnknownPin == 4

WideBuild ==
    [debounce |-> WideDebounce, doubleclick |-> WideDoubleClick, longpress |-> WideLongPress,
     mod |-> WideClockMod]

ChainA == State(1, 2, 0)
ChainB == State(2, 3, 0)
ChainC == State(3, NoPin, 0)
Chains ==
    {<<ChainA, ChainB, ChainC>>, <<ChainA, ChainC, ChainB>>, <<ChainB, ChainA, ChainC>>,
     <<ChainB, ChainC, ChainA>>, <<ChainC, ChainA, ChainB>>, <<ChainC, ChainB, ChainA>>}
RegSpare == <<State(1, UnknownPin, 0), State(NoPin, NoPin, 0), State(2, 1, 0)>>
WideRegistries == Chains \cup {RegSpare}

InitWide ==
    Ready(WideBuild, [maxTime |-> WideMaxTime, quiet |-> {3}, maxResets |-> WideMaxResets, clean |-> FALSE],
          WideRegistries, {0}, {TRUE})

WideReset == \E pin \in Pins \cup {NoPin, UnknownPin} : Reset(pin)

NextWide == Poll \/ Consume \/ WideReset

SpecWide == InitWide /\ [][NextWide]_vars

----------------------------------------------------------------------------
(* SpecClean: A mirrored onto B, in both orders of the array; both inputs are *)
(* free but do not bounce; update() runs in every millisecond, the callback   *)
(* is registered. The run is too short for a query to come true.              *)

InitClean ==
    Ready(WideBuild, [maxTime |-> WideMaxTime, quiet |-> {}, maxResets |-> 0, clean |-> TRUE],
          {RegAB, RegBA}, {0, WideClockMod - WideLead}, {TRUE})

NextClean == Poll

SpecClean == InitClean /\ [][NextClean]_vars

----------------------------------------------------------------------------
(* SpecLive: one button without bounce, update() in every millisecond for     *)
(* ever, nobody calls reset() or a consuming query. Real time is not counted  *)
(* (elapsed stays 0, and pressAt, heldFor and firedAt with it): the clock     *)
(* comes round again and again.                                               *)

LivePoll(levels) ==
    /\ raw' = levels
    /\ stable' = Aged(levels)
    /\ held' = Runs(levels)
    /\ base' = Based(levels)
    /\ now' = (now + 1) % ClockMod
    /\ buttons' = update(buttons, levels, callback, (now + 1) % ClockMod)
    /\ fired' = Fires(buttons, levels, callback, (now + 1) % ClockMod)
    /\ cbCount' = 0
    /\ ret' = NoCall
    /\ UNCHANGED <<build, env, callback, elapsed, polled, dense, pressAt, heldFor, resets, firedAt>>

InitLive ==
    Ready(WideBuild, [maxTime |-> 0, quiet |-> {}, maxResets |-> 0, clean |-> TRUE], {Reg1},
          {0, WideClockMod - WideLead}, {TRUE})

NextLive == \E levels \in InputsOf(env) : LivePoll(levels)

(* update() keeps being called, once in every millisecond *)
SpecLive == InitLive /\ [][NextLive]_vars /\ WF_vars(NextLive)

----------------------------------------------------------------------------
(* Claims *)

IsTarget(i) == \E j \in Indices : buttons[j].mappedState = i
(* raw[p] is in a run of toggles less than the debounce time apart *)
Toggling(p) == stable[p] + 1 < BUTTON_DEBOUNCE_TIME

ConsumeOnce ==
    [][\A q \in Predicates, pin \in Pins :
        (Query(q, pin, TRUE) /\ ret'.value) => ~Holds(buttons', q, pin, now')]_vars

(* C2, witness: isLongPressedDouble(pin, true) has just returned true for the *)
(* pin of a mirror target.                                                    *)
ConsumeWitness ==
    /\ ret.op = "isLongPressedDouble"
    /\ ret.value
    /\ IsTarget(getState(buttons, ret.pin))

(* a step that resets no record *)
NoReset == ret'.op = "none" /\ resets' = resets

(* C3, as stated: once a predicate called with reset = false returns true for *)
(* a pin, it keeps returning true whatever update() and the clock do, until a *)
(* reset or until a new press of the button is resolved.                      *)
QueryStable ==
    [][\A q \in Predicates, pin \in Pins :
        (/\ Holds(buttons, q, pin, now)
         /\ NoReset
         /\ buttons'[getState(buttons, pin)].state = RELEASED)
            => Holds(buttons', q, pin, now')]_vars

(* C4, as stated: when a record that is no mirror target resolves a press of  *)
(* its own input and has resolved one before, with no reset in between, it    *)
(* sets doublePress if the two are less than BUTTON_DOUBLECLICK_TIME apart,   *)
(* and clears it if they are more than that apart.                            *)
DoubleClickWindow ==
    [][\A i \in Indices :
        (/\ ~IsTarget(i)
         /\ pressAt[i] # 0
         /\ pressAt'[i] # pressAt[i]
         /\ NoReset)
            => /\ (pressAt'[i] - pressAt[i] < BUTTON_DOUBLECLICK_TIME) => buttons'[i].doublePress
               /\ (pressAt'[i] - pressAt[i] > BUTTON_DOUBLECLICK_TIME) => ~buttons'[i].doublePress]_vars

(* the records that mirror their state onto record i *)
Sources(i) == {j \in Indices : buttons[j].mappedState = i}

(* C6: with A mirrored onto B and B's own input Released throughout, once A   *)
(* has a completed press latched B has it too: B is Released with A's         *)
(* duration, doublePress and last_time, so that the predicates on B's pin     *)
(* report the press as those on A's pin do; in either registry order.         *)
AliasPropagation ==
    \A i \in Indices : \A j \in Sources(i) :
        (buttons[j].state = RELEASED /\ buttons[j].duration > 0)
            => /\ buttons[i].state = RELEASED
               /\ buttons[i].duration = buttons[j].duration
               /\ buttons[i].doublePress = buttons[j].doublePress
               /\ \A q \in Predicates :
                    Holds(buttons, q, buttons[i].pin, now) <=> Holds(buttons, q, buttons[j].pin, now)

(* the real length of the last completed hold that record i has latched: its  *)
(* own, or that of the record mirrored onto it *)
Held(i) == IF Sources(i) = {} THEN heldFor[i] ELSE heldFor[CHOOSE j \in Sources(i) : TRUE]

(* C7: across a wrap of the millisecond clock no press has a latched duration *)
(* larger than the real hold, no query reports a long press for a hold        *)
(* shorter than BUTTON_LONGPRESS_TIME, and the callback is not invoked for a  *)
(* button held less than BUTTON_LONGPRESS_TIME.                               *)
WrapSafe ==
    \A i \in Indices :
        /\ (buttons[i].state = RELEASED /\ buttons[i].duration > 0)
                => buttons[i].duration <= Held(i)
        /\ (Holds(buttons, "isLongPressed", buttons[i].pin, now) /\ getState(buttons, buttons[i].pin) = i)
                => Held(i) >= BUTTON_LONGPRESS_TIME
        /\ i \in fired => (pressAt[i] # 0 /\ elapsed - pressAt[i] >= BUTTON_LONGPRESS_TIME)

(* the clock value at Init *)
StartClock == Sub(now, elapsed % ClockMod)
HoldOver == elapsed = HoldEnd

(* C5, as stated: a button held for 3 x BUTTON_LONGPRESS_TIME ms and let go,  *)
(* with update() in every millisecond, has the callback invoked 3 times.      *)
HoldFiresThrice == HoldOver => cbCount = 3

(* C5, amended: it has the callback invoked exactly 2 times when millis()     *)
(* does not wrap during the hold, and 1 or 2 times when it does; never 3.     *)
HoldFiresTwice ==
    HoldOver =>
        /\ cbCount \in {1, 2}
        /\ StartClock + HoldTime < ClockMod => cbCount = 2

(* C5, witness: the hold is over, its 3 x BUTTON_LONGPRESS_TIME ms latched,   *)
(* the callback was invoked twice on a clock that did not wrap.               *)
HoldWitness ==
    /\ HoldOver
    /\ StartClock = 0
    /\ cbCount = 2
    /\ buttons[1].state = RELEASED
    /\ buttons[1].duration = HoldTime

ExampleTolerance == 5
About(x, y) == x - y <= ExampleTolerance /\ y - x <= ExampleTolerance

(* C8, as stated: in the worked example the state becomes Pressed at about    *)
(* t = 50 and the duration latched at release is about 70 ms, the raw release *)
(* time less the time the press was registered.                               *)
ExampleLatchShortened ==
    /\ pressAt[1] # 0 => About(pressAt[1], DefaultDebounce)
    /\ (buttons[1].state = RELEASED /\ buttons[1].duration > 0)
            => About(buttons[1].duration, ExampleRelease - DefaultDebounce)

(* C8, amended: the state is Pressed from t = 51 to t = 170, and the duration *)
(* latched at the release, resolved at t = 171, is the raw hold time, 120 ms: *)
(* both edges are resolved BUTTON_DEBOUNCE_TIME + 1 ms after the raw edge.    *)
ExampleLatch ==
    /\ polled =>
        (buttons[1].state = PRESSED
            <=> elapsed \in (DefaultDebounce + 1)..(ExampleRelease + DefaultDebounce))
    /\ polled =>
        buttons[1].duration = IF elapsed > ExampleRelease + DefaultDebounce THEN ExampleRelease ELSE 0

(* C8, witness: the release has just been resolved. *)
ExampleLatchWitness ==
    /\ elapsed = ExampleRelease + DefaultDebounce + 1
    /\ buttons[1].state = RELEASED
    /\ heldFor[1] = ExampleRelease
    /\ buttons[1].duration = ExampleRelease

Gates(button, minDuration, maxDuration, requireDouble, settled) ==
    /\ button # 0
    /\ buttons[button].state = RELEASED
    /\ buttons[button].duration > 0
    /\ settled
    /\ buttons[button].duration > minDuration
    /\ (maxDuration = 0 \/ buttons[button].duration <= maxDuration)
    /\ (~requireDouble \/ buttons[button].doublePress)

(* C10, as stated: checkPress returns true iff the record is present, its     *)
(* state is Released, duration > 0, now - last_time >= the double-click       *)
(* window, duration > minDuration, maxDuration = 0 or duration <= maxDuration,*)
(* and doublePress or not requireDouble.                                      *)
CheckPressGatesAtLeast ==
    [][ret'.op = "checkPress" =>
        (ret'.value <=>
            Gates(ret'.button, ret'.minDuration, ret'.maxDuration, ret'.requireDouble,
                  ret'.button # 0
                    /\ Sub(now, buttons[ret'.button].last_time) >= BUTTON_DOUBLECLICK_TIME))]_vars

(* C10, amended: the same with more than the double-click window elapsed      *)
(* since last_time: now - last_time > BUTTON_DOUBLECLICK_TIME.                *)
CheckPressGates ==
    [][ret'.op = "checkPress" =>
        (ret'.value <=>
            Gates(ret'.button, ret'.minDuration, ret'.maxDuration, ret'.requireDouble,
                  ret'.button # 0
                    /\ Sub(now, buttons[ret'.button].last_time) > BUTTON_DOUBLECLICK_TIME))]_vars

(* C10, witness: checkPress has returned true, without a reset, one           *)
(* millisecond after the double-click window was over.                        *)
CheckPressWitness ==
    /\ ret.op = "checkPress"
    /\ ret.value
    /\ ~ret.reset
    /\ buttons[1].duration > 0
    /\ Sub(now, buttons[1].last_time) = BUTTON_DOUBLECLICK_TIME + 1

(* C11: reset(pin), for a registered pin, sets the pin's record and every     *)
(* other record whose mappedPin is pin to Released, doublePress false,        *)
(* duration 0, last_time 0, lastReading Released, lastChangeTime now,         *)
(* lastLongPressCallback 0, keeping pin, mappedPin and mappedState, and       *)
(* leaves every other record as it was.                                       *)
ResetFrame ==
    [][\A pin \in Pins :
        Reset(pin) =>
            \A i \in Indices :
                buttons'[i] =
                    IF i = getState(buttons, pin) \/ buttons[i].mappedPin = pin
                    THEN [pin |-> buttons[i].pin, state |-> RELEASED, doublePress |-> FALSE,
                          duration |-> 0, last_time |-> 0, lastReading |-> RELEASED,
                          lastChangeTime |-> now, lastLongPressCallback |-> 0,
                          mappedPin |-> buttons[i].mappedPin,
                          mappedState |-> buttons[i].mappedState]
                    ELSE buttons[i]]_vars

(* C11, witness: reset(2) has just run on the chain: the records of pins 1    *)
(* and 2 are cleared, the record of pin 3, two hops from pin 1 and the mirror *)
(* target of pin 2, is still Pressed.                                         *)
ResetFrameWitness ==
    /\ ret.op = "reset"
    /\ ret.pin = 2
    /\ getState(buttons, 3) # 0
    /\ buttons[getState(buttons, 3)].state = PRESSED
    /\ now # 0
    /\ buttons[getState(buttons, 1)].lastChangeTime = now
    /\ buttons[getState(buttons, 2)].lastChangeTime = now

Unregistered == ((1..UnknownPin) \cup {NoPin}) \ Pins

(* C12: for the pin 255 and for a pin with no record in the registry, the six *)
(* predicates return false, with reset true or false, and reset(pin) changes  *)
(* no record.                                                                 *)
UnknownPinInert ==
    \A pin \in Unregistered :
        /\ \A q \in Predicates :
            /\ ~Holds(buttons, q, pin, now)
            /\ AfterQuery(buttons, q, pin, TRUE, now) = buttons
        /\ reset(buttons, pin, now) = buttons

(* C12, witness: reset() has just run for a pin nobody registered, in a       *)
(* registry with an unused slot, where a record that mirrors onto that pin    *)
(* is Pressed.                                                                *)
UnknownPinWitness ==
    /\ ret.op = "reset"
    /\ ret.pin = UnknownPin
    /\ now # 0
    /\ \E i \in Indices : buttons[i].pin = NoPin
    /\ \E i \in Indices : buttons[i].mappedPin = UnknownPin /\ buttons[i].state = PRESSED

(* C13: after every completed call, every record whose state is Pressed has  *)
(* duration 0, the records written by the second loop of update() included.   *)
PressedHasNoDuration ==
    \A i \in Indices : buttons[i].state = PRESSED => buttons[i].duration = 0

(* C13, witness: a mirror target whose own input is Released, and was at the  *)
(* last update(), is Pressed: the second loop wrote it.                       *)
PressedHasNoDurationWitness ==
    \E i \in Indices :
        /\ IsTarget(i)
        /\ buttons[i].state = PRESSED
        /\ buttons[i].duration = 0
        /\ buttons[i].lastReading = RELEASED
        /\ raw[buttons[i].pin] = RELEASED
        /\ elapsed > BUTTON_DEBOUNCE_TIME + 1

(* the registry in another order of the array, its mirror pointers resolved   *)
(* again                                                                      *)
Permutations == {perm \in [1..MaxButtons -> 1..MaxButtons] : \A i, j \in 1..MaxButtons : perm[i] = perm[j] => i = j}
Reorder(btns, perm) == setup([i \in 1..Len(btns) |-> [btns[perm[i]] EXCEPT !.mappedState = 0]])
Fields(btns, pin) == [btns[getState(btns, pin)] EXCEPT !.mappedState = 0]
IsChain == Len(buttons) = MaxButtons /\ Pins = 1..MaxButtons

(* C15: for the chain A -> B -> C, the fields of C after an update() are the  *)
(* same whatever the order of the three records in the array.                 *)
OrderIndependent ==
    [][(IsChain /\ elapsed' = elapsed + 1) =>
        \A perm \in Permutations :
            Fields(buttons', MaxButtons)
                = Fields(update(Reorder(buttons, perm), raw', callback, now'), MaxButtons)]_vars

(* C19: update() invokes the callback for a record only if the record's own   *)
(* input has been read Pressed at every update() of the last                  *)
(* BUTTON_LONGPRESS_TIME ms.                                                  *)
CallbackForOwnHold ==
    \A i \in fired :
        /\ raw[buttons[i].pin] = PRESSED
        /\ held[buttons[i].pin] >= BUTTON_LONGPRESS_TIME

(* C14: while a record's state stays Pressed, two consecutive invocations of  *)
(* the callback for it are at least BUTTON_LONGPRESS_TIME ms apart, whatever  *)
(* the raw readings are.                                                      *)
LongPressThrottled ==
    [][\A i \in Indices :
        (i \in fired' /\ firedAt[i] # 0 /\ buttons[i].state = PRESSED)
            => elapsed' - firedAt[i] >= BUTTON_LONGPRESS_TIME]_vars

(* C17: a resolved press gets doublePress = true only if the same button had  *)
(* an earlier resolved press, since the program started and since the button  *)
(* was last reset, less than BUTTON_DOUBLECLICK_TIME ms before.               *)
DoublePressHasFirstPress ==
    [][\A i \in Indices :
        (~IsTarget(i) /\ pressAt'[i] = elapsed' /\ elapsed' # elapsed /\ buttons'[i].doublePress)
            => (pressAt[i] # 0 /\ elapsed' - pressAt[i] < BUTTON_DOUBLECLICK_TIME)]_vars

(* record i holds the copy of the press that its source j has completed *)
CopiedAndReleased(i, j) ==
    /\ buttons[j].state = RELEASED
    /\ buttons[j].duration > 0
    /\ buttons[i].last_time = buttons[j].last_time

(* C16, as stated: once the source is Released, with no reset and the         *)
(* target's own input unchanged, the target's duration and doublePress stay   *)
(* at what the last copy wrote: the duration 0 and the doublePress of the     *)
(* source, Pressed.                                                           *)
TargetFrozen ==
    \A i \in Indices : \A j \in Sources(i) :
        CopiedAndReleased(i, j)
            => /\ buttons[i].doublePress = buttons[j].doublePress
               /\ buttons[i].duration = 0

(* C16, amended: the target's doublePress stays at what the last copy wrote;  *)
(* its duration does not: the first loop resolves the target's own release    *)
(* and latches now - last_time, in the update() that resolves the source's    *)
(* release or up to BUTTON_DEBOUNCE_TIME + 1 ms later, while the target is    *)
(* still Pressed with duration 0.                                             *)
TargetLatches ==
    \A i \in Indices : \A j \in Sources(i) :
        CopiedAndReleased(i, j)
            => /\ buttons[i].doublePress = buttons[j].doublePress
               /\ \/ buttons[i].state = PRESSED /\ buttons[i].duration = 0
                  \/ /\ buttons[i].state = RELEASED
                     /\ buttons[i].duration > 0
                     /\ Sub(buttons[i].duration, buttons[j].duration) <= BUTTON_DEBOUNCE_TIME + 1

(* C16, witness: some time after the source's release the target is Released  *)
(* with the source's duration latched, its own input untouched.               *)
TargetLatchesWitness ==
    \E i \in Indices : \E j \in Sources(i) :
        /\ CopiedAndReleased(i, j)
        /\ buttons[i].state = RELEASED
        /\ buttons[i].duration = buttons[j].duration
        /\ buttons[i].lastChangeTime = 0
        /\ heldFor[j] > 0
        /\ Sub(now, buttons[j].last_time) > buttons[j].duration + BUTTON_DEBOUNCE_TIME

(* C18: for every pin, isShortPressed and isLongPressed (reset = false) are   *)
(* never both true and isPressed is true exactly when one of them is; the     *)
(* same for the three Double predicates.                                      *)
ShortLongPartition ==
    \A pin \in Pins \cup {NoPin} :
        /\ ~(Holds(buttons, "isShortPressed", pin, now) /\ Holds(buttons, "isLongPressed", pin, now))
        /\ Holds(buttons, "isPressed", pin, now)
            <=> (Holds(buttons, "isShortPressed", pin, now) \/ Holds(buttons, "isLongPressed", pin, now))
        /\ ~(Holds(buttons, "isShortPressedDouble", pin, now)
                /\ Holds(buttons, "isLongPressedDouble", pin, now))
        /\ Holds(buttons, "isPressedDouble", pin, now)
            <=> (Holds(buttons, "isShortPressedDouble", pin, now)
                    \/ Holds(buttons, "isLongPressedDouble", pin, now))

(* C18, witness: a settled press of exactly BUTTON_LONGPRESS_TIME ms, flagged *)
(* double: it is short, and not long.                                         *)
ShortLongWitness ==
    \E pin \in Pins :
        /\ buttons[getState(buttons, pin)].duration = BUTTON_LONGPRESS_TIME
        /\ Holds(buttons, "isPressedDouble", pin, now)
        /\ Holds(buttons, "isShortPressedDouble", pin, now)
        /\ ~Holds(buttons, "isLongPressed", pin, now)

(* C20: a button that is no mirror target, whose input has been Pressed for   *)
(* more than BUTTON_DEBOUNCE_TIME ms and is Released and stays Released, with *)
(* update() in every millisecond and no reset, eventually has                 *)
(* isPressed(pin, false) return true.                                         *)
CleanPressIsSeen ==
    (raw[1] = RELEASED /\ held[1] > BUTTON_DEBOUNCE_TIME)
        ~> (raw[1] = PRESSED \/ Holds(buttons, "isPressed", 1, now))

====
